---- MODULE Spec2Model ----
(***************************************************************************)
(* Node provisioning workflow of cbtools-autobench (nodes/node.go).        *)
(*                                                                         *)
(* A Node drives one remote host through sequences of remote calls.  The   *)
(* model keeps the host's state, the position of the running operation,    *)
(* the remote calls it has issued so far and the error it returns.         *)
(* Text (lsblk output, device names) is a sequence of characters.          *)
(***************************************************************************)
EXTENDS Integers, Sequences, FiniteSets, TLC

\* ------------------------------------------------------------------------
\* Bounds of the model
\* ------------------------------------------------------------------------

\* operations started against one host in one behaviour
MaxRuns == 3

\* lines of the device listing handed to the locator
MaxLines == 2

\* lines of the authorized_keys file before the first loginAsRoot
MaxKeys == 2

\* columns of "lsblk -o NAME,SIZE,TYPE,MOUNTPOINT"
Columns == 4

\* ------------------------------------------------------------------------
\* Text
\* ------------------------------------------------------------------------

NL == "\n"

SP == " "

TAB == "\t"

\* unicode.IsSpace, restricted to the characters of the model
IsSpace(c) == c \in {SP, TAB, NL}

disk == <<"d", "i", "s", "k">>

part == <<"p", "a", "r", "t">>

sda == <<"s", "d", "a">>

nvme0n1 == <<"n", "v", "m", "e", "0", "n", "1">>

nvme1n1 == <<"n", "v", "m", "e", "1", "n", "1">>

p1 == <<"p", "1">>

size8G == <<"8", "G">>

size100G == <<"1", "0", "0", "G">>

RECURSIVE Join(_, _)
\* the texts of ss, with sep between consecutive ones
Join(ss, sep) ==
    IF ss = <<>> THEN <<>>
    ELSE IF Len(ss) = 1 THEN ss[1]
    ELSE ss[1] \o sep \o Join(Tail(ss), sep)

\* position of the first c in s, 0 if there is none
IndexOf(s, c) ==
    IF \E i \in 1..Len(s) : s[i] = c
    THEN CHOOSE i \in 1..Len(s) : s[i] = c /\ \A j \in 1..(i - 1) : s[j] # c
    ELSE 0

RECURSIVE SplitLines(_)
\* strings.Split(s, "\n")
SplitLines(s) ==
    LET i == IndexOf(s, NL)
    IN  IF i = 0 THEN <<s>>
        ELSE <<SubSeq(s, 1, i - 1)>> \o SplitLines(SubSeq(s, i + 1, Len(s)))

\* length of the longest prefix of s without white space
WordLen(s) ==
    IF \E i \in 1..Len(s) : IsSpace(s[i])
    THEN (CHOOSE i \in 1..Len(s) : IsSpace(s[i]) /\ \A j \in 1..(i - 1) : ~IsSpace(s[j])) - 1
    ELSE Len(s)

RECURSIVE Fields(_)
\* strings.Fields(s): the maximal runs of non-space characters
Fields(s) ==
    IF s = <<>> THEN <<>>
    ELSE IF IsSpace(Head(s)) THEN Fields(Tail(s))
    ELSE <<SubSeq(s, 1, WordLen(s))>> \o Fields(SubSeq(s, WordLen(s) + 1, Len(s)))

\* ------------------------------------------------------------------------
\* Block device locator
\* ------------------------------------------------------------------------

ErrNoDisk == "no disk volume found in lsblk output"

\* the loop body of ExtractLastVolumeName: the name kept after one line
ScanLineFirst(line, lastVolumeName) ==
    LET fields == Fields(line)
    IN  IF Len(fields) > 2 /\ fields[3] = disk /\ lastVolumeName = <<>>
        THEN fields[1] ELSE lastVolumeName

ScanLineFourFields(line, lastVolumeName) ==
    LET fields == Fields(line)
    IN  IF Len(fields) > 3 /\ fields[3] = disk THEN fields[1] ELSE lastVolumeName

ScanLine(line, lastVolumeName) ==
    LET fields == Fields(line)
    IN  IF Len(fields) > 2 /\ fields[3] = disk THEN fields[1] ELSE lastVolumeName

RECURSIVE ScanLines(_, _)
ScanLines(lines, lastVolumeName) ==
    IF lines = <<>> THEN lastVolumeName
    ELSE ScanLines(Tail(lines), ScanLine(Head(lines), lastVolumeName))

\* ExtractLastVolumeName: (name, error), error "" standing for nil
ExtractLastVolumeName(lsblkOutput) ==
    LET lastVolumeName == ScanLines(SplitLines(lsblkOutput), <<>>)
    IN  IF lastVolumeName = <<>>
        THEN [done |-> FALSE, name |-> <<>>, err |-> ErrNoDisk]
        ELSE [done |-> FALSE, name |-> lastVolumeName, err |-> ""]

\* ------------------------------------------------------------------------
\* Remote host and remote command channel (ssh.Client)
\* ------------------------------------------------------------------------

OK == "ok"

\* the error SecureUpload gives when the upload target exists
ErrFileExists == "File already exists"

\* a remote command that ran and exited non-zero
ErrExit == "exit status 1"

\* a failure of the channel itself
ErrChannel == "channel error"

MntPath == "/mnt"

loop0 == <<"l", "o", "o", "p", "0">>

loop == <<"l", "o", "o", "p">>

HeaderLine == <<<<"N", "A", "M", "E">>, <<"S", "I", "Z", "E">>, <<"T", "Y", "P", "E">>,
                <<"M", "O", "U", "N", "T", "P", "O", "I", "N", "T">>>>

\* what "lsblk -o NAME,SIZE,TYPE,MOUNTPOINT" prints on host h, one device per line
Lsblk(h) ==
    LET rows ==
            <<HeaderLine, <<loop0, size8G, loop, <<"/", "s", "n", "a", "p">>>>>>
            \o (IF h.disks = "ebs"
                THEN <<<<nvme0n1, size8G, disk>>,
                       <<nvme0n1 \o p1, size8G, part, <<"/">>>>,
                       <<nvme1n1, size100G, disk>>>>
                     \o (IF h.partitioned
                         THEN <<<<nvme1n1 \o p1, size100G, part>>
                                \o (IF h.mounted THEN <<<<"/", "m", "n", "t">>>> ELSE <<>>)>>
                         ELSE <<>>)
                ELSE <<>>)
    IN  Join([i \in 1..Len(rows) |-> Join(rows[i], <<SP>>) \o <<SP>>], <<NL>>)

\* a remote call: the channel method, the command or argument, the device it names
Cmd(call, prog, arg, dev) == [call |-> call, prog |-> prog, arg |-> arg, dev |-> dev]

\* filepath.Base of a path given as its components
Base(path) == IF path = <<>> THEN "." ELSE path[Len(path)]

\* filepath.Join("/home/ec2-user", filepath.Base(localPath))
RemotePath(path) == <<"home", "ec2-user", Base(path)>>

CmdInstallPackages == Cmd("InstallPackages", "", <<"Platform.Dependencies">>, <<>>)

CmdUninstallPackages == Cmd("UninstallPackages", "", <<"couchbase-server">>, <<>>)

CmdRemoveDirectory == Cmd("RemoveDirectory", "", <<"value.CBInstallDirectory">>, <<>>)

CmdSecureUpload(path) == Cmd("SecureUpload", "", RemotePath(path), <<>>)

CmdInstallPackageAt(path) == Cmd("InstallPackageAt", "", RemotePath(path), <<>>)

CmdRemoveFile(path) == Cmd("RemoveFile", "", RemotePath(path), <<>>)

CmdSleep == Cmd("time.Sleep", "", <<"30s">>, <<>>)

CmdChownMnt == Cmd("ExecuteCommand", "sudo chown -R couchbase:couchbase", <<MntPath>>, <<>>)

CmdMkdir(path) == Cmd("ExecuteCommand", "mkdir -p", <<path>>, <<>>)

CmdChown(path) == Cmd("ExecuteCommand", "chown -R couchbase:couchbase", <<path>>, <<>>)

CmdLsblk == Cmd("ExecuteCommand", "lsblk -o NAME,SIZE,TYPE,MOUNTPOINT", <<>>, <<>>)

CmdCheckVolume(v) == Cmd("ExecuteCommand", "lsblk | grep %s", <<>>, v)

CmdCheckPartition(v) == Cmd("ExecuteCommand", "lsblk /dev/%s | grep /dev/%sp1", <<>>, v)

CmdSfdisk(v) == Cmd("ExecuteCommand", "echo ',,,;' | sfdisk /dev/%s", <<>>, v)

CmdMkfs(v) == Cmd("ExecuteCommand", "mkfs.xfs /dev/%sp1", <<>>, v)

CmdMount(v) == Cmd("ExecuteCommand", "mount /dev/%sp1 /mnt", <<>>, v)

CmdChmod == Cmd("ExecuteCommand", "chmod 777 /mnt", <<>>, <<>>)

WriteKeysProg == "echo '%s' | sudo tee /root/.ssh/authorized_keys"

CmdBecomeRoot == Cmd("ExecuteCommand", "sudo -s", <<>>, <<>>)

CmdReadKeys == Cmd("ExecuteCommand", "sudo cat /root/.ssh/authorized_keys", <<>>, <<>>)

\* the new content of the file travels in the command
CmdWriteKeys(content) == Cmd("ExecuteCommand", WriteKeysProg, <<>>, content)

CmdRestartSSH ==
    Cmd("ExecuteCommand",
        "sudo systemctl restart sshd.service || sudo systemctl restart ssh.service", <<>>, <<>>)

\* the scratch volume is the one device whose state changes
IsScratch(h, v) == h.disks = "ebs" /\ v = nvme1n1

\* the partition "<v>p1" exists
HasPartition(h, v) ==
    \/ h.disks = "ebs" /\ v = nvme0n1
    \/ IsScratch(h, v) /\ h.partitioned

\* the result of remote call c on host h when the channel itself works
Natural(c, h) ==
    CASE c.call = "SecureUpload" ->
            IF c.arg \in h.archives THEN ErrFileExists ELSE OK
      [] c.call = "InstallPackageAt" ->
            IF c.arg \in h.archives THEN OK ELSE ErrExit
      [] c = CmdCheckPartition(c.dev) ->
            IF HasPartition(h, c.dev) THEN OK ELSE ErrExit
      [] c = CmdSfdisk(c.dev) ->
            IF IsScratch(h, c.dev) /\ ~h.mounted THEN OK ELSE ErrExit
      [] c = CmdMkfs(c.dev) ->
            IF IsScratch(h, c.dev) /\ h.partitioned /\ ~h.mounted THEN OK ELSE ErrExit
      [] c = CmdMount(c.dev) ->
            IF IsScratch(h, c.dev) /\ h.formatted /\ ~h.mounted THEN OK ELSE ErrExit
      [] OTHER -> OK

\* every result the call can have: the channel may fail at any call
Outcomes(c, h) == {Natural(c, h), ErrChannel}

\* the host after remote call c succeeded
Effect(c, h) ==
    CASE c.call = "InstallPackages" -> [h EXCEPT !.deps = TRUE]
      [] c.call = "UninstallPackages" -> [h EXCEPT !.installed = FALSE]
      [] c.call = "RemoveDirectory" -> [h EXCEPT !.installDir = FALSE]
      [] c.call = "SecureUpload" -> [h EXCEPT !.archives = @ \cup {c.arg}]
      [] c.call = "InstallPackageAt" -> [h EXCEPT !.installed = TRUE, !.installDir = TRUE]
      [] c.call = "RemoveFile" -> [h EXCEPT !.archives = @ \ {c.arg}]
      [] c = CmdChownMnt -> [h EXCEPT !.mntOwner = "couchbase"]
      [] c.prog = "mkdir -p" ->
            [h EXCEPT !.dirs[c.arg[1]] = IF @ = "absent" THEN "root" ELSE @]
      [] c.prog = "chown -R couchbase:couchbase" -> [h EXCEPT !.dirs[c.arg[1]] = "couchbase"]
      [] c = CmdSfdisk(c.dev) -> [h EXCEPT !.partitioned = TRUE, !.formatted = FALSE]
      [] c = CmdMkfs(c.dev) -> [h EXCEPT !.formatted = TRUE]
      [] c = CmdMount(c.dev) ->
            [h EXCEPT !.mounted = TRUE, !.mntMode = "755", !.mntOwner = "root"]
      [] c = CmdChmod -> [h EXCEPT !.mntMode = "777"]
      [] c.prog = WriteKeysProg -> [h EXCEPT !.authKeys = c.dev \o <<NL>>]
      [] OTHER -> h

\* ------------------------------------------------------------------------
\* State
\* ------------------------------------------------------------------------

VARIABLES
    blueprint,  \* the node's blueprint: DataPath, IndexPath
    host,       \* the remote host
    op,         \* the operation of the current run
    pc,         \* its next step, "done" once it has returned
    localPath,  \* provision's packagePath
    issued,     \* the remote calls of the current run, each with its result
    err,        \* the error the run returns, outermost message first; <<>> is nil
    runs,       \* operations started so far
    prev,       \* the run before the current one: its operation, whether it failed, its last command
    text,       \* the argument of ExtractLastVolumeName
    located     \* its result, [done |-> FALSE] before the call

vars == <<blueprint, host, op, pc, localPath, issued, err, runs, prev, text, located>>

DataPaths == {"", "/data"}

IndexPaths == {"", "/index"}

PackagePaths == {<<"builds", "a.rpm">>, <<"b.rpm">>}

\* before the first run
NoRun == [op |-> "none", failed |-> FALSE, last |-> ""]

NotLocated == [done |-> FALSE, name |-> <<>>, err |-> ""]

Init ==
    /\ blueprint \in [DataPath : DataPaths, IndexPath : IndexPaths]
    /\ host \in [deps : {FALSE}, installed : BOOLEAN, installDir : BOOLEAN,
                 archives : {{}}, disks : {"none", "ebs"},
                 partitioned : {FALSE}, formatted : {FALSE}, mounted : {FALSE},
                 mntMode : {"755"}, mntOwner : {"root"},
                 dirs : {[p \in (DataPaths \cup IndexPaths) \ {""} |-> "absent"]}]
    /\ host.installDir = host.installed
    /\ op = "none"
    /\ pc = "done"
    /\ localPath = <<>>
    /\ issued = <<>>
    /\ err = <<>>
    /\ runs = 0
    /\ prev = NoRun
    /\ text = <<>>
    /\ located = NotLocated

\* ------------------------------------------------------------------------
\* Steps
\* ------------------------------------------------------------------------

\* a call of operation o on the node, entered at step first
Begin(o, first) ==
    /\ pc = "done"
    /\ runs < MaxRuns
    /\ op' = o
    /\ pc' = first
    /\ issued' = <<>>
    /\ err' = <<>>
    /\ runs' = runs + 1
    /\ prev' = [op |-> op, failed |-> err # <<>>,
                last |-> IF issued = <<>> THEN "" ELSE issued[Len(issued)].cmd.prog]
    /\ text' = <<>>
    /\ located' = NotLocated
    /\ UNCHANGED <<blueprint, host>>

At(o, step) == op = o /\ pc = step

Issue(c, r) == issued' = Append(issued, [cmd |-> c, res |-> r])

\* issue c; on failure return the error wrapped in wraps, else go on at next
Remote(c, wraps, next) ==
    \E r \in Outcomes(c, host) :
        /\ Issue(c, r)
        /\ IF r = OK
           THEN host' = Effect(c, host) /\ pc' = next /\ err' = <<>>
           ELSE host' = host /\ pc' = "done" /\ err' = wraps \o <<r>>
        /\ UNCHANGED <<blueprint, op, localPath, runs, prev, text, located>>

\* ---- provision ----

CallProvision ==
    \E p \in PackagePaths : Begin("provision", "installDeps") /\ localPath' = p

InstallDepsUnwrapped ==
    /\ At("provision", "installDeps")
    /\ Remote(CmdInstallPackages, <<>>, "uninstallCB")

InstallDeps ==
    /\ At("provision", "installDeps")
    /\ Remote(CmdInstallPackages, <<"failed to install dependencies">>, "uninstallCB")

UninstallPackagesIgnoringError ==
    /\ At("provision", "uninstallCB")
    /\ \E r \in Outcomes(CmdUninstallPackages, host) :
        /\ Issue(CmdUninstallPackages, r)
        /\ host' = IF r = OK THEN Effect(CmdUninstallPackages, host) ELSE host
        /\ pc' = "removeDirectory"
        /\ UNCHANGED <<blueprint, op, localPath, err, runs, prev, text, located>>

UninstallPackages ==
    /\ At("provision", "uninstallCB")
    /\ Remote(CmdUninstallPackages,
              <<"failed to uninstall Couchbase Server", "failed to uninstall 'couchbase-server'">>,
              "removeDirectory")

RemoveDirectory ==
    /\ At("provision", "removeDirectory")
    /\ Remote(CmdRemoveDirectory,
              <<"failed to uninstall Couchbase Server", "failed to cleanup install directory">>,
              "installCB")

\* errors.Is(err, fmt.Errorf("File already exists")): the target is a value made
\* at the call, which no error of the chain is identical to
ErrorsIsFileExists(r) == FALSE

UploadCaseExistsFirst(r) ==
    IF r = ErrFileExists THEN "return nil"
    ELSE IF r # OK THEN "return err"
    ELSE "go on"

\* the switch of installCB on SecureUpload's error: its cases in their order
UploadCase(r) ==
    IF r # OK THEN "return err"
    ELSE IF ErrorsIsFileExists(r) THEN "return nil"
    ELSE "go on"

SecureUpload ==
    /\ At("provision", "installCB")
    /\ \E r \in Outcomes(CmdSecureUpload(localPath), host) :
        /\ Issue(CmdSecureUpload(localPath), r)
        /\ host' = IF r = OK THEN Effect(CmdSecureUpload(localPath), host) ELSE host
        /\ CASE UploadCase(r) = "return err" ->
                    /\ pc' = "done"
                    /\ err' = <<"failed to install Couchbase Server",
                                "failed to upload package archive", r>>
             [] UploadCase(r) = "return nil" -> pc' = "sleep" /\ err' = <<>>
             [] OTHER -> pc' = "installPackageAt" /\ err' = <<>>
        /\ UNCHANGED <<blueprint, op, localPath, runs, prev, text, located>>

InstallPackageAt ==
    /\ At("provision", "installPackageAt")
    /\ Remote(CmdInstallPackageAt(localPath),
              <<"failed to install Couchbase Server", "failed to install 'couchbase-server'">>,
              "removeFile")

RemoveFile ==
    /\ At("provision", "removeFile")
    /\ Remote(CmdRemoveFile(localPath),
              <<"failed to install Couchbase Server", "failed to remove package archive">>,
              "sleep")

\* time.Sleep(30 * time.Second)
Sleep ==
    /\ At("provision", "sleep")
    /\ Issue(CmdSleep, OK)
    /\ pc' = "giveCBPermissions"
    /\ UNCHANGED <<blueprint, host, op, localPath, err, runs, prev, text, located>>

GiveCBPermissionsSwallowingError ==
    /\ At("provision", "giveCBPermissions")
    /\ \E r \in Outcomes(CmdChownMnt, host) :
        /\ Issue(CmdChownMnt, r)
        /\ host' = IF r = OK THEN Effect(CmdChownMnt, host) ELSE host
        /\ pc' = "done"
        /\ UNCHANGED <<blueprint, op, localPath, err, runs, prev, text, located>>

GiveCBPermissionsByChmod ==
    /\ At("provision", "giveCBPermissions")
    /\ Remote(CmdChmod,
              <<"failed to give Couchbase Server permissions",
                "failed to change permissions on /mnt">>,
              "done")

GiveCBPermissions ==
    /\ At("provision", "giveCBPermissions")
    /\ Remote(CmdChownMnt,
              <<"failed to give Couchbase Server permissions",
                "failed to change permissions on /mnt">>,
              "done")

\* ---- createDataPath, createIndexPath ----

CallCreateDataPathUnguarded ==
    /\ Begin("createDataPath", "mkdir")
    /\ UNCHANGED localPath

CallCreateDataPath ==
    /\ Begin("createDataPath", IF blueprint.DataPath = "" THEN "done" ELSE "mkdir")
    /\ UNCHANGED localPath

MkdirDataPath ==
    /\ At("createDataPath", "mkdir")
    /\ Remote(CmdMkdir(blueprint.DataPath), <<"failed to create remote data directory">>, "chown")

ChownDataPath ==
    /\ At("createDataPath", "chown")
    /\ Remote(CmdChown(blueprint.DataPath), <<"failed to chown remote data directory">>, "done")

CallCreateIndexPath ==
    /\ Begin("createIndexPath", IF blueprint.IndexPath = "" THEN "done" ELSE "mkdir")
    /\ UNCHANGED localPath

MkdirIndexPath ==
    /\ At("createIndexPath", "mkdir")
    /\ Remote(CmdMkdir(blueprint.IndexPath), <<"failed to create remote index directory">>, "chown")

ChownIndexPath ==
    /\ At("createIndexPath", "chown")
    /\ Remote(CmdChown(blueprint.IndexPath), <<"failed to chown remote index directory">>, "done")

\* ---- checkAndPartitionEBS ----

CallCheckAndPartitionEBS ==
    /\ Begin("checkAndPartitionEBS", "lsblk")
    /\ UNCHANGED localPath

\* the device listing
ListVolumes ==
    /\ At("checkAndPartitionEBS", "lsblk")
    /\ \E r \in Outcomes(CmdLsblk, host) :
        /\ Issue(CmdLsblk, r)
        /\ IF r = OK
           THEN text' = Lsblk(host) /\ pc' = "extract" /\ err' = <<>>
           ELSE text' = text /\ pc' = "done"
                /\ err' = <<"failed to check for all volumes", r>>
        /\ UNCHANGED <<blueprint, host, op, localPath, runs, prev, located>>

ExtractVolumeIgnoringError ==
    /\ At("checkAndPartitionEBS", "extract")
    /\ located' = [ExtractLastVolumeName(text) EXCEPT !.done = TRUE]
    /\ pc' = "checkVolume"
    /\ UNCHANGED <<blueprint, host, op, localPath, issued, err, runs, prev, text>>

\* volumeName, err := ExtractLastVolumeName(string(allVolumes))
ExtractVolume ==
    /\ At("checkAndPartitionEBS", "extract")
    /\ located' = [ExtractLastVolumeName(text) EXCEPT !.done = TRUE]
    /\ IF located'.err # ""
       THEN pc' = "done" /\ err' = <<"failed to extract last volume name", located'.err>>
       ELSE pc' = "checkVolume" /\ err' = <<>>
    /\ UNCHANGED <<blueprint, host, op, localPath, issued, runs, prev, text>>

volumeName == located.name

CheckVolumeIgnoringError ==
    /\ At("checkAndPartitionEBS", "checkVolume")
    /\ \E r \in Outcomes(CmdCheckVolume(volumeName), host) :
        /\ Issue(CmdCheckVolume(volumeName), r)
        /\ pc' = "checkPartition"
        /\ UNCHANGED <<blueprint, host, op, localPath, err, runs, prev, text, located>>

CheckVolume ==
    /\ At("checkAndPartitionEBS", "checkVolume")
    /\ Remote(CmdCheckVolume(volumeName), <<"failed to check for EBS volume">>, "checkPartition")

CheckPartitionGoingOn ==
    /\ At("checkAndPartitionEBS", "checkPartition")
    /\ \E r \in Outcomes(CmdCheckPartition(volumeName), host) :
        /\ Issue(CmdCheckPartition(volumeName), r)
        /\ pc' = IF r # OK THEN "sfdisk" ELSE "mkfs"
        /\ UNCHANGED <<blueprint, host, op, localPath, err, runs, prev, text, located>>

\* the probe: any error of it means "not partitioned"
CheckPartition ==
    /\ At("checkAndPartitionEBS", "checkPartition")
    /\ \E r \in Outcomes(CmdCheckPartition(volumeName), host) :
        /\ Issue(CmdCheckPartition(volumeName), r)
        /\ pc' = IF r # OK THEN "sfdisk" ELSE "done"
        /\ UNCHANGED <<blueprint, host, op, localPath, err, runs, prev, text, located>>

PartitionVolumeIgnoringError ==
    /\ At("checkAndPartitionEBS", "sfdisk")
    /\ \E r \in Outcomes(CmdSfdisk(volumeName), host) :
        /\ Issue(CmdSfdisk(volumeName), r)
        /\ host' = IF r = OK THEN Effect(CmdSfdisk(volumeName), host) ELSE host
        /\ pc' = "mkfs"
        /\ UNCHANGED <<blueprint, op, localPath, err, runs, prev, text, located>>

PartitionVolume ==
    /\ At("checkAndPartitionEBS", "sfdisk")
    /\ Remote(CmdSfdisk(volumeName), <<"failed to partition EBS volume">>, "mkfs")

MakeFileStructure ==
    /\ At("checkAndPartitionEBS", "mkfs")
    /\ Remote(CmdMkfs(volumeName), <<"failed to make mkfs file structure">>, "mount")

MountVolume ==
    /\ At("checkAndPartitionEBS", "mount")
    /\ Remote(CmdMount(volumeName), <<"failed to mount /mnt on EBS volume">>, "chmod")

ChangePermissions ==
    /\ At("checkAndPartitionEBS", "chmod")
    /\ Remote(CmdChmod, <<"failed to change permissions on /mnt">>, "done")

\* ---- initializeCB, disableCB ----

NodeInit == "couchbase-cli node-init -c localhost:8091 -u Administrator -p asdasd"

InitFlagsOnDataPath(bp) ==
    (IF bp.DataPath # "" THEN <<"--node-init-data-path", bp.DataPath>> ELSE <<>>)
    \o (IF bp.DataPath # "" THEN <<"--node-init-index-path", bp.IndexPath>> ELSE <<>>)

\* what initializeCB appends to the node-init command, as its words
InitFlags(bp) ==
    (IF bp.DataPath # "" THEN <<"--node-init-data-path", bp.DataPath>> ELSE <<>>)
    \o (IF bp.IndexPath # "" THEN <<"--node-init-index-path", bp.IndexPath>> ELSE <<>>)

CmdNodeInit(bp) == Cmd("ExecuteCommand", NodeInit, InitFlags(bp), <<>>)

CmdDisable == Cmd("ExecuteCommand", "Platform.CommandDisableCouchbase", <<>>, <<>>)

CallInitializeCB ==
    /\ Begin("initializeCB", "nodeInit")
    /\ UNCHANGED localPath

\* the error of the command is returned as it is
NodeInitCommand ==
    /\ At("initializeCB", "nodeInit")
    /\ Remote(CmdNodeInit(blueprint), <<>>, "done")

CallDisableCB ==
    /\ Begin("disableCB", "disable")
    /\ UNCHANGED localPath

\* the error of the command is returned as it is
DisableCommand ==
    /\ At("disableCB", "disable")
    /\ Remote(CmdDisable, <<>>, "done")

Next ==
    \/ CallProvision
    \/ InstallDeps
    \/ UninstallPackages
    \/ RemoveDirectory
    \/ SecureUpload
    \/ InstallPackageAt
    \/ RemoveFile
    \/ Sleep
    \/ GiveCBPermissions
    \/ CallCreateDataPath
    \/ MkdirDataPath
    \/ ChownDataPath
    \/ CallCreateIndexPath
    \/ MkdirIndexPath
    \/ ChownIndexPath
    \/ CallCheckAndPartitionEBS
    \/ ListVolumes
    \/ ExtractVolume
    \/ CheckVolume
    \/ CheckPartition
    \/ PartitionVolume
    \/ MakeFileStructure
    \/ MountVolume
    \/ ChangePermissions
    \/ CallInitializeCB
    \/ NodeInitCommand
    \/ CallDisableCB
    \/ DisableCommand

Spec == Init /\ [][Next]_vars

\* ------------------------------------------------------------------------
\* loginAsRoot, which is called on its own
\* ------------------------------------------------------------------------

sshrsa == <<"s", "s", "h", "-", "r", "s", "a">>

\* sub occurs in s at position k, counted from 1
OccursAt(s, sub, k) ==
    /\ k + Len(sub) - 1 <= Len(s)
    /\ SubSeq(s, k, k + Len(sub) - 1) = sub

\* strings.Index(s, sub): counted from 0, -1 if sub does not occur
Index(s, sub) ==
    IF \E k \in 1..Len(s) : OccursAt(s, sub, k)
    THEN (CHOOSE k \in 1..Len(s) :
            OccursAt(s, sub, k) /\ \A j \in 1..(k - 1) : ~OccursAt(s, sub, j)) - 1
    ELSE -1

NewContentFromLastKey(output) ==
    LET last == CHOOSE k \in 1..Len(output) :
                    OccursAt(output, sshrsa, k)
                    /\ \A j \in (k + 1)..Len(output) : ~OccursAt(output, sshrsa, j)
    IN  SubSeq(output, last, Len(output))

\* newContent := output[index:]
NewContent(output) == SubSeq(output, Index(output, sshrsa) + 1, Len(output))

CallLoginAsRoot ==
    /\ Begin("loginAsRoot", "becomeRoot")
    /\ UNCHANGED localPath

\* issue c; log.Fatalf ends the process on failure, else go on at next
RemoteOrFatal(c, next) ==
    \E r \in Outcomes(c, host) :
        /\ Issue(c, r)
        /\ IF r = OK
           THEN host' = Effect(c, host) /\ pc' = next
           ELSE host' = host /\ pc' = "exited"
        /\ UNCHANGED <<blueprint, op, localPath, err, runs, prev, located>>

BecomeRoot ==
    /\ At("loginAsRoot", "becomeRoot")
    /\ RemoteOrFatal(CmdBecomeRoot, "readKeys")
    /\ UNCHANGED text

ReadAuthorizedKeys ==
    /\ At("loginAsRoot", "readKeys")
    /\ RemoteOrFatal(CmdReadKeys, "index")
    /\ text' = IF pc' = "index" THEN host.authKeys ELSE text

\* index := strings.Index(string(output), "ssh-rsa")
FindKey ==
    /\ At("loginAsRoot", "index")
    /\ pc' = IF Index(text, sshrsa) = -1 THEN "exited" ELSE "writeKeys"
    /\ UNCHANGED <<blueprint, host, op, localPath, issued, err, runs, prev, text, located>>

WriteAuthorizedKeys ==
    /\ At("loginAsRoot", "writeKeys")
    /\ RemoteOrFatal(CmdWriteKeys(NewContent(text)), "restart")
    /\ UNCHANGED text

RestartSSHReturningError ==
    /\ At("loginAsRoot", "restart")
    /\ Remote(CmdRestartSSH, <<>>, "done")

RestartSSH ==
    /\ At("loginAsRoot", "restart")
    /\ RemoteOrFatal(CmdRestartSSH, "done")
    /\ UNCHANGED text

sshed == <<"s", "s", "h", "-", "e", "d">>

KeyOptions == <<"n", "o", "-", "p", "t", "y", SP>>

\* a line of authorized_keys: options or none, the key type, the key
KeyLines ==
    {o \o t \o <<SP, k, NL>> : o \in {<<>>, KeyOptions}, t \in {sshrsa, sshed}, k \in {"A", "B"}}

RECURSIVE Concat(_)
Concat(ss) == IF ss = <<>> THEN <<>> ELSE Head(ss) \o Concat(Tail(ss))

KeyFiles == {Concat(ls) : ls \in UNION {[1..n -> KeyLines] : n \in 0..MaxKeys}}

InitRoot ==
    /\ host \in [authKeys : KeyFiles]
    /\ blueprint = [DataPath |-> "", IndexPath |-> ""]
    /\ op = "none"
    /\ pc = "done"
    /\ localPath = <<>>
    /\ issued = <<>>
    /\ err = <<>>
    /\ runs = 0
    /\ prev = NoRun
    /\ text = <<>>
    /\ located = NotLocated

NextRoot ==
    \/ CallLoginAsRoot
    \/ BecomeRoot
    \/ ReadAuthorizedKeys
    \/ FindKey
    \/ WriteAuthorizedKeys
    \/ RestartSSH

SpecRoot == InitRoot /\ [][NextRoot]_vars

\* ------------------------------------------------------------------------
\* The locator on its own: every listing within the bounds
\* ------------------------------------------------------------------------

Words == {disk, sda}

\* a line is 0..Columns words
LineWords == UNION {[1..n -> Words] : n \in 0..Columns}

\* the two ways the words of a listing are laid out
Layouts == {[sep |-> <<SP>>, pad |-> <<>>], [sep |-> <<SP, TAB>>, pad |-> <<SP>>]}

Render(lines, lay) ==
    Join([i \in 1..Len(lines) |-> lay.pad \o Join(lines[i], lay.sep) \o lay.pad], <<NL>>)

Listings ==
    {Render(ls, lay) : ls \in UNION {[1..n -> LineWords] : n \in 1..MaxLines}, lay \in Layouts}

InitLocator ==
    /\ text \in Listings
    /\ located = NotLocated
    /\ blueprint = [DataPath |-> "", IndexPath |-> ""]
    /\ host = [disks |-> "none"]
    /\ op = "ExtractLastVolumeName"
    /\ pc = "call"
    /\ localPath = <<>>
    /\ issued = <<>>
    /\ err = <<>>
    /\ runs = 0
    /\ prev = NoRun

CallExtractLastVolumeName ==
    /\ At("ExtractLastVolumeName", "call")
    /\ located' = [ExtractLastVolumeName(text) EXCEPT !.done = TRUE]
    /\ pc' = "done"
    /\ UNCHANGED <<blueprint, host, op, localPath, issued, err, runs, prev, text>>

NextLocator == CallExtractLastVolumeName

SpecLocator == InitLocator /\ [][NextLocator]_vars

\* ------------------------------------------------------------------------
\* Properties of provision
\* ------------------------------------------------------------------------

Failed(i) == issued[i].res # OK

ProvisionOrder ==
    <<"InstallPackages", "UninstallPackages", "RemoveDirectory", "SecureUpload",
      "InstallPackageAt", "RemoveFile", "time.Sleep", "ExecuteCommand">>

\* C1: a provision run issues InstallPackages(dependencies), UninstallPackages
\* (couchbase-server), RemoveDirectory(install dir), SecureUpload, InstallPackageAt,
\* RemoveFile(archive), the settle wait and the chown of /mnt in this order, each at
\* most once, each only after every earlier one succeeded, and nothing after the
\* first failure.
C1_ProvisionOrder ==
    op = "provision" =>
        /\ Len(issued) <= Len(ProvisionOrder)
        /\ \A i \in 1..Len(issued) :
            /\ issued[i].cmd.call = ProvisionOrder[i]
            /\ i < Len(issued) => ~Failed(i)
            /\ i = 2 => issued[i].cmd.arg = <<"couchbase-server">>
            /\ i \in 4..6 => issued[i].cmd.arg = <<"home", "ec2-user", localPath[Len(localPath)]>>
            /\ i = 8 => /\ issued[i].cmd.prog = "sudo chown -R couchbase:couchbase"
                        /\ issued[i].cmd.arg = <<"/mnt">>
        /\ (\E i \in 1..Len(issued) : Failed(i)) => pc = "done"

C1_Witness ==
    /\ op = "provision"
    /\ pc = "done"
    /\ Len(issued) = Len(ProvisionOrder)
    /\ \A i \in 1..Len(issued) : ~Failed(i)

UploadFoundArchive(i) ==
    /\ issued[i].cmd.call = "SecureUpload"
    /\ issued[i].res = ErrFileExists

\* C2: when SecureUpload fails because the upload target already exists, installCB
\* returns no error and the provisioning run does not fail because of it.
C2_UploadExistsIsSuccess ==
    (op = "provision" /\ \E i \in 1..Len(issued) : UploadFoundArchive(i)) => err = <<>>

\* C6: a provision run that follows a failed provision run on the same host, and
\* meets no fault of the channel, returns success.
C6_RerunAfterFailureSucceeds ==
    ( /\ op = "provision"
      /\ pc = "done"
      /\ prev.op = "provision"
      /\ prev.failed
      /\ \A i \in 1..Len(issued) : issued[i].res # ErrChannel ) => err = <<>>

\* C7: provision returns nil when all its steps succeeded, and an error whenever a
\* step failed otherwise than by the upload target existing.
C7_ProvisionResult ==
    (op = "provision" /\ pc = "done") =>
        /\ (Len(issued) = Len(ProvisionOrder) /\ \A i \in 1..Len(issued) : ~Failed(i))
                => err = <<>>
        /\ (\E i \in 1..Len(issued) : Failed(i) /\ ~UploadFoundArchive(i)) => err # <<>>

C7_Witness ==
    /\ op = "provision"
    /\ pc = "done"
    /\ Len(issued) = Len(ProvisionOrder)
    /\ Failed(Len(issued))
    /\ err # <<>>

\* ------------------------------------------------------------------------
\* Properties of createDataPath and createIndexPath
\* ------------------------------------------------------------------------

PathOf(o) == IF o = "createDataPath" THEN blueprint.DataPath ELSE blueprint.IndexPath

\* C8: createDataPath and createIndexPath issue no remote command and return nil
\* exactly when their blueprint field is empty; otherwise they issue mkdir -p and
\* then chown -R couchbase:couchbase on that path, the chown only after the mkdir
\* succeeded.
C8_PathOperations ==
    \A o \in {"createDataPath", "createIndexPath"} :
        op = o =>
            /\ PathOf(o) = "" => (issued = <<>> /\ pc = "done" /\ err = <<>>)
            /\ PathOf(o) # "" =>
                /\ Len(issued) <= 2
                /\ pc = "done" => Len(issued) >= 1
                /\ \A i \in 1..Len(issued) :
                    /\ issued[i].cmd.call = "ExecuteCommand"
                    /\ issued[i].cmd.arg = <<PathOf(o)>>
                    /\ issued[i].cmd.prog =
                          IF i = 1 THEN "mkdir -p" ELSE "chown -R couchbase:couchbase"
                /\ Len(issued) = 2 => ~Failed(1)
                /\ (pc = "done" /\ err = <<>>) => (Len(issued) = 2 /\ ~Failed(2))

C8_Witness ==
    /\ op = "createIndexPath"
    /\ pc = "done"
    /\ Len(issued) = 2
    /\ err = <<>>
    /\ prev.op = "createDataPath"
    /\ blueprint.DataPath = ""

\* ------------------------------------------------------------------------
\* Properties of checkAndPartitionEBS
\* ------------------------------------------------------------------------

IsProbe(c) == c = CmdCheckPartition(c.dev)

IsPreparation(c) ==
    c \in {CmdSfdisk(c.dev), CmdMkfs(c.dev), CmdMount(c.dev), CmdChmod}

\* the step just taken issued sfdisk
IssuesSfdisk ==
    /\ Len(issued') = Len(issued) + 1
    /\ issued'[Len(issued')].cmd = CmdSfdisk(issued'[Len(issued')].cmd.dev)

\* C3: over any sequence of checkAndPartitionEBS runs in which any remote command
\* may fail, sfdisk is never issued against a volume that already has its primary
\* partition.
C3_NeverRepartition ==
    [][IssuesSfdisk => ~HasPartition(host, issued'[Len(issued')].cmd.dev)]_vars

\* C4: when the partition probe succeeds, the run issues none of the partition,
\* format, mount and chmod commands and returns nil.
C4_ProbeSuccessIsNoOp ==
    \A i \in 1..Len(issued) :
        (op = "checkAndPartitionEBS" /\ IsProbe(issued[i].cmd) /\ ~Failed(i)) =>
            /\ i = Len(issued)
            /\ pc = "done"
            /\ err = <<>>
            /\ \A j \in 1..Len(issued) : ~IsPreparation(issued[j].cmd)

C4_Witness ==
    /\ op = "checkAndPartitionEBS"
    /\ pc = "done"
    /\ issued # <<>>
    /\ IsProbe(issued[Len(issued)].cmd)
    /\ issued[Len(issued)].cmd.dev = nvme1n1
    /\ ~Failed(Len(issued))

\* C5: on a host with an attached volume, every checkAndPartitionEBS run that
\* returns nil leaves the volume partitioned, formatted, mounted at /mnt and
\* world read/write/executable, whatever failures interrupted earlier runs.
C5_SuccessMeansPrepared ==
    (op = "checkAndPartitionEBS" /\ pc = "done" /\ err = <<>> /\ host.disks = "ebs") =>
        /\ host.partitioned
        /\ host.formatted
        /\ host.mounted
        /\ host.mntMode = "777"

\* ------------------------------------------------------------------------
\* Properties of ExtractLastVolumeName
\* ------------------------------------------------------------------------

\* the positions of t where a field starts
FieldStarts(t) ==
    {a \in 1..Len(t) : ~IsSpace(t[a]) /\ (a = 1 \/ IsSpace(t[a - 1]))}

\* the field of t that starts at a
FieldAt(t, a) ==
    SubSeq(t, a, CHOOSE b \in a..Len(t) :
                    /\ b = Len(t) \/ IsSpace(t[b + 1])
                    /\ \A k \in a..b : ~IsSpace(t[k]))

\* positions a <= b of t are on one line
SameLine(t, a, b) == \A k \in a..b : t[k] # NL

\* the field that starts at a is 'disk'
IsDiskAt(t, a) ==
    /\ a + Len(disk) - 1 <= Len(t)
    /\ SubSeq(t, a, a + Len(disk) - 1) = disk
    /\ a + Len(disk) - 1 = Len(t) \/ IsSpace(t[a + Len(disk)])

\* the starts of the third fields of their line that are 'disk'
DiskFields(t) ==
    LET starts == FieldStarts(t)
    IN  {a \in starts :
            /\ IsDiskAt(t, a)
            /\ Cardinality({s \in starts : s < a /\ SameLine(t, s, a)}) = 2}

\* the first field of the line position a is on
NameOfLine(t, a) ==
    FieldAt(t, CHOOSE s \in 1..a :
                    /\ SameLine(t, s, a)
                    /\ ~IsSpace(t[s])
                    /\ \A k \in 1..(s - 1) : SameLine(t, k, s) => IsSpace(t[k]))

\* C9: for a text with at least one line whose third field is 'disk',
\* ExtractLastVolumeName returns the first field of the last such line.
C9_LastDiskLine ==
    located.done =>
        LET found == DiskFields(text)
        IN  found # {} =>
                /\ located.err = ""
                /\ located.name =
                      NameOfLine(text, CHOOSE a \in found : \A b \in found : b <= a)

C9_Witness ==
    /\ op = "ExtractLastVolumeName"
    /\ located.done
    /\ \E a, b \in DiskFields(text) :
        /\ a < b
        /\ NameOfLine(text, a) # NameOfLine(text, b)
        /\ located.name = NameOfLine(text, b)

\* C10: ExtractLastVolumeName returns an error, and the empty name, if and only
\* if no line has 'disk' as its third field; shorter lines are skipped.
C10_ErrorIffNoDisk ==
    located.done =>
        /\ (located.err # "") <=> (DiskFields(text) = {})
        /\ located.err # "" => located.name = <<>>

\* an error for a text with a line of two fields, the second being 'disk'
C10_Witness ==
    /\ op = "ExtractLastVolumeName"
    /\ located.done
    /\ located.err = ErrNoDisk
    /\ \E a \in FieldStarts(text) :
        /\ IsDiskAt(text, a)
        /\ Cardinality({s \in FieldStarts(text) : s < a /\ SameLine(text, s, a)}) = 1

\* ------------------------------------------------------------------------
\* Properties of initializeCB
\* ------------------------------------------------------------------------

\* words w1 w2 follow each other in ws
HasPair(ws, w1, w2) == \E k \in 1..(Len(ws) - 1) : ws[k] = w1 /\ ws[k + 1] = w2

HasWord(ws, w) == \E k \in 1..Len(ws) : ws[k] = w

\* C11: initializeCB issues exactly one remote command, the node-init command,
\* which contains '--node-init-data-path <DataPath>' if and only if DataPath is
\* not empty and '--node-init-index-path <IndexPath>' if and only if IndexPath is
\* not empty.
C11_InitCommand ==
    op = "initializeCB" =>
        /\ Len(issued) <= 1
        /\ pc = "done" => Len(issued) = 1
        /\ \A i \in 1..Len(issued) :
            LET c == issued[i].cmd
            IN  /\ c.call = "ExecuteCommand"
                /\ c.prog = "couchbase-cli node-init -c localhost:8091 -u Administrator -p asdasd"
                /\ HasWord(c.arg, "--node-init-data-path") <=> blueprint.DataPath # ""
                /\ HasWord(c.arg, "--node-init-index-path") <=> blueprint.IndexPath # ""
                /\ blueprint.DataPath # "" =>
                        HasPair(c.arg, "--node-init-data-path", blueprint.DataPath)
                /\ blueprint.IndexPath # "" =>
                        HasPair(c.arg, "--node-init-index-path", blueprint.IndexPath)

C11_Witness ==
    /\ op = "initializeCB"
    /\ pc = "done"
    /\ blueprint = [DataPath |-> "/data", IndexPath |-> "/index"]
    /\ HasPair(issued[1].cmd.arg, "--node-init-data-path", "/data")
    /\ HasPair(issued[1].cmd.arg, "--node-init-index-path", "/index")

\* ------------------------------------------------------------------------
\* Properties of loginAsRoot
\* ------------------------------------------------------------------------

HasKeyPrefix(t) == \E k \in 1..Len(t) : OccursAt(t, sshrsa, k)

\* C12: in loginAsRoot the failure of any step (become root, read the file, key
\* prefix not found, write the file, restart the daemon) ends the process at once:
\* no later command is issued and no error is ever returned to the caller.
C12_FailureIsFatal ==
    op = "loginAsRoot" =>
        /\ err = <<>>
        /\ \A i \in 1..Len(issued) : Failed(i) => (i = Len(issued) /\ pc = "exited")
        /\ (Len(issued) >= 2 /\ ~Failed(2) /\ ~HasKeyPrefix(text)) =>
                (Len(issued) = 2 /\ pc \in {"index", "exited"})
        /\ pc = "done" => (Len(issued) = 4 /\ \A i \in 1..4 : ~Failed(i))

\* the process ended because the file holds no 'ssh-rsa'
C12_Witness ==
    /\ op = "loginAsRoot"
    /\ pc = "exited"
    /\ Len(issued) = 2
    /\ ~Failed(2)
    /\ host.authKeys # <<>>

\* the number of times 'ssh-rsa' occurs in t
KeyCount(t) == Cardinality({k \in 1..Len(t) : OccursAt(t, sshrsa, k)})

IsRewrite(i) == issued[i].cmd.prog = "echo '%s' | sudo tee /root/.ssh/authorized_keys"

\* C13 as claimed: the file is rewritten with the first 'ssh-rsa' key only, so a
\* file holding several keys ends up holding one.
C13_OnlyFirstKeyKept ==
    \A i \in 1..Len(issued) :
        (op = "loginAsRoot" /\ IsRewrite(i)) => KeyCount(issued[i].cmd.dev) = 1

\* C13: loginAsRoot rewrites the file with the content that was read, from the
\* first occurrence of 'ssh-rsa' to its end, and issues the restart of the SSH
\* daemon only after the rewrite succeeded.
C13_KeepsFromFirstKey ==
    op = "loginAsRoot" =>
        \A i \in 1..Len(issued) :
            /\ IsRewrite(i) =>
                /\ i = 3
                /\ \E k \in 1..Len(text) :
                    /\ OccursAt(text, sshrsa, k)
                    /\ \A j \in 1..(k - 1) : ~OccursAt(text, sshrsa, j)
                    /\ issued[i].cmd.dev = [n \in 1..(Len(text) - k + 1) |-> text[n + k - 1]]
            /\ issued[i].cmd = CmdRestartSSH => (i = 4 /\ IsRewrite(3) /\ ~Failed(3))
            /\ i = 4 => issued[i].cmd = CmdRestartSSH

\* a file of two 'ssh-rsa' keys was rewritten with both and the daemon restarted
C13_Witness ==
    /\ op = "loginAsRoot"
    /\ pc = "done"
    /\ KeyCount(text) = 2
    /\ Index(text, sshrsa) > 0
    /\ KeyCount(issued[3].cmd.dev) = 2

\* ------------------------------------------------------------------------
\* Wrapping of errors
\* ------------------------------------------------------------------------

RawErrors == {ErrFileExists, ErrExit, ErrChannel}

\* the run has returned the error of its failed remote call under a description
ReturnsWrapped ==
    /\ Len(err) >= 2
    /\ err[Len(err)] = issued[Len(issued)].res
    /\ \A k \in 1..(Len(err) - 1) : err[k] \notin RawErrors

SomeCallFailed == \E i \in 1..Len(issued) : Failed(i)

Preparation(v) == <<CmdSfdisk(v), CmdMkfs(v), CmdMount(v), CmdChmod>>

\* the run before this one was a checkAndPartitionEBS that failed at sfdisk
FollowsFailedSfdisk ==
    /\ prev.op = "checkAndPartitionEBS"
    /\ prev.failed
    /\ prev.last = "echo ',,,;' | sfdisk /dev/%s"

C16_ListingFirst ==
    op = "checkAndPartitionEBS" =>
        /\ pc = "lsblk" => (issued = <<>> /\ ~located.done /\ text = <<>>)
        /\ \A i \in 1..Len(issued) :
            issued[i].cmd.prog = "lsblk -o NAME,SIZE,TYPE,MOUNTPOINT" <=> i = 1
        /\ (issued # <<>> /\ Failed(1)) => (Len(issued) = 1 /\ pc = "done" /\ err # <<>>)
        /\ \A i \in 2..Len(issued) : issued[i].cmd.dev \in {<<>>, located.name}
        /\ (issued # <<>> /\ ~Failed(1) /\ pc \notin {"extract", "checkVolume", "done"}) =>
                (located.done /\ located.err = "")
        /\ (issued # <<>> /\ ~Failed(1) /\ pc \in {"checkVolume", "done"}) =>
                LET found == DiskFields(text)
                IN  /\ found = {} => (Len(issued) = 1 /\ pc = "done" /\ err # <<>>)
                    /\ found # {} =>
                        /\ located.err = ""
                        /\ located.name =
                              NameOfLine(text, CHOOSE a \in found : \A b \in found : b <= a)

\* the second run in a row on a host without a device of type disk
C16_Witness ==
    /\ op = "checkAndPartitionEBS"
    /\ prev.op = "checkAndPartitionEBS"
    /\ pc = "done"
    /\ Len(issued) = 1
    /\ ~Failed(1)
    /\ err = <<"failed to extract last volume name", "no disk volume found in lsblk output">>

\* ------------------------------------------------------------------------
\* installCB
\* ------------------------------------------------------------------------

ArchivePath == <<"home", "ec2-user", localPath[Len(localPath)]>>

\* installCB has returned nil
InstallCBSucceeded == pc \in {"sleep", "giveCBPermissions"} \/ Len(issued) >= 7

\* C17: whenever installCB returns nil, SecureUpload, InstallPackageAt and
\* RemoveFile of the archive have succeeded in this order within the call, the
\* package is installed and the archive removed; the archive stays on the host
\* when InstallPackageAt or RemoveFile fails.
C17_InstallCBSuccess ==
    op = "provision" =>
        /\ InstallCBSucceeded =>
            /\ Len(issued) >= 6
            /\ issued[4].cmd.call = "SecureUpload"
            /\ issued[5].cmd.call = "InstallPackageAt"
            /\ issued[6].cmd.call = "RemoveFile"
            /\ \A i \in 4..6 : ~Failed(i) /\ issued[i].cmd.arg = ArchivePath
        /\ pc = "sleep" => (host.installed /\ ArchivePath \notin host.archives)
        /\ (Len(issued) \in {5, 6} /\ Failed(Len(issued))) =>
                (pc = "done" /\ err # <<>> /\ ArchivePath \in host.archives)

\* RemoveFile failed: the package is installed and the archive is still there
C17_Witness ==
    /\ op = "provision"
    /\ pc = "done"
    /\ Len(issued) = 6
    /\ Failed(6)
    /\ host.installed
    /\ ArchivePath \in host.archives

\* ------------------------------------------------------------------------
\* The existence check of checkAndPartitionEBS
\* ------------------------------------------------------------------------

\* C18: between selecting the volume and probing its partition
\* checkAndPartitionEBS issues an existence check, lsblk | grep <volume>; if it
\* fails the run returns an error without probing or partitioning.
C18_ExistenceCheck ==
    op = "checkAndPartitionEBS" =>
        /\ Len(issued) >= 2 =>
            /\ located.done /\ located.err = ""
            /\ ~Failed(1)
            /\ issued[2].cmd = [call |-> "ExecuteCommand", prog |-> "lsblk | grep %s",
                                arg |-> <<>>, dev |-> located.name]
            /\ Failed(2) =>
                /\ Len(issued) = 2
                /\ pc = "done"
                /\ err = <<"failed to check for EBS volume", issued[2].res>>
        /\ \A i \in 1..Len(issued) :
            (IsProbe(issued[i].cmd) \/ IsPreparation(issued[i].cmd)) => (i >= 3 /\ ~Failed(2))

C18_Witness ==
    /\ op = "checkAndPartitionEBS"
    /\ pc = "done"
    /\ Len(issued) = 2
    /\ Failed(2)
    /\ issued[2].cmd.dev = nvme1n1

\* ------------------------------------------------------------------------
\* What provision leaves alone
\* ------------------------------------------------------------------------

====
